---- MODULE Spec2Model ----
(***************************************************************************)
(* A model of awkward::MereTable and awkward::Column (src/MereTable.h).    *)
(* A std::string is a sequence of one-character strings, a rendered text   *)
(* is the sequence of its lines.  Every public member function of          *)
(* MereTable is one action; the Column member functions are operators.     *)
(***************************************************************************)
EXTENDS Integers, Sequences, FiniteSets

\* ------------------------------------------------------------------ bounds
\* The size of the largest table: the number of its Column objects (top-level
\* columns and subcolumns) plus numRows.
MaxSize == 4

\* Strings the caller passes as titles and as values.
Names == { <<>>, <<"b", "b", "b">> }
Values == { <<>>, <<"x">> }
\* What a read outside a std::vector may yield.
Garbage == { <<"?", "?", "?", "?">> }
\* What a read past the end of a std::initializer_list may yield.
Overrun == Values
\* Strings used to widen a title or a value.
Wider == { <<"w">>, <<"w", "w", "w", "w">> }

NameLists == { <<>> } \cup { <<n>> : n \in Names } \cup { <<n, m>> : n \in Names, m \in Names }

\* ------------------------------------------------------------------- state
VARIABLES
    columns,    \* MereTable::columns, a sequence of Column records
    numRows,    \* MereTable::numRows
    status,     \* "ok", or "crashed" once undefined behaviour ended the process
    result,     \* the lines of the string the last call returned (ToString), else <<>>
    lastOp,     \* the member function called last
    lastArgs,   \* the strings passed to it
    success,    \* what Find returned as .second in the last call (FALSE if not called)
    cleared,    \* how many rows the last call discarded (Clear), else 0
    exact       \* every AddValues call so far passed one value per leaf column

vars == <<columns, numRows, status, result, lastOp, lastArgs, success, cleared, exact>>

\* -------------------------------------------------------------- class Column
Max(a, b) == IF a >= b THEN a ELSE b

\* Column::Column(std::string title)
Column(title) == [title |-> title, width |-> 0, columns |-> <<>>, values |-> <<>>]

\* Column::AddColumn
ColumnAddColumn(column, title) ==
    [column EXCEPT !.columns = Append(@, Column(title))]

\* *it for an iterator into the initializer_list: past the end the read is
\* undefined and yields g.
Deref(values, it, g) == IF it <= Len(values) THEN values[it] ELSE g

RECURSIVE ConsumeValues(_, _, _, _)
RECURSIVE ConsumeValuesEach(_, _, _, _)

\* ConsumeValues without ++it: every leaf reads the same element.
ConsumeValuesNoAdvance(column, it, values, g) ==
    IF Len(column.columns) # 0
    THEN LET r == ConsumeValuesEach(column.columns, it, values, g)
         IN  [column |-> [column EXCEPT !.columns = r.columns], it |-> r.it]
    ELSE [column |-> [column EXCEPT !.values = Append(@, Deref(values, it, g))],
          it |-> it]

\* Column::ConsumeValues(It& it): the column after the call and the iterator.
ConsumeValues(column, it, values, g) ==
    IF Len(column.columns) # 0
    THEN LET r == ConsumeValuesEach(column.columns, it, values, g)
         IN  [column |-> [column EXCEPT !.columns = r.columns], it |-> r.it]
    ELSE [column |-> [column EXCEPT !.values = Append(@, Deref(values, it, g))],
          it |-> it + 1]

\* for ( auto &column : columns ) column.ConsumeValues(it);
ConsumeValuesEach(cols, it, values, g) ==
    IF cols = <<>>
    THEN [columns |-> <<>>, it |-> it]
    ELSE LET h == ConsumeValues(Head(cols), it, values, g)
             t == ConsumeValuesEach(Tail(cols), h.it, values, g)
         IN  [columns |-> <<h.column>> \o t.columns, it |-> t.it]

\* Clear that empties the column's own values and forgets its subcolumns.
ColumnClearShallow(column) == [column EXCEPT !.values = <<>>]

RECURSIVE ColumnClear(_)
\* Column::Clear
ColumnClear(column) ==
    [column EXCEPT !.columns = [i \in DOMAIN column.columns |-> ColumnClear(column.columns[i])],
                   !.values = <<>>]

RECURSIVE MaxLen(_, _)
\* for ( auto &v : values ) width = std::max<int>(width, v.size());
MaxLen(width, values) ==
    IF values = <<>> THEN width
    ELSE MaxLen(Max(width, Len(Head(values))), Tail(values))

RECURSIVE MaxWidth(_, _)
\* maxSubcolumnWidth = std::max<int>(column.width, maxSubcolumnWidth) over the subcolumns
MaxWidth(acc, cols) ==
    IF cols = <<>> THEN acc
    ELSE MaxWidth(Max(Head(cols).width, acc), Tail(cols))

\* UpdateWidth without maxSubcolumnWidth++ for a remainder: the division
\* rounds down.
GroupWidthRoundDown(column, subs) ==
    LET n == Len(subs)
        width == Len(column.title)
        maxSubcolumnWidth0 == MaxWidth(0, subs)
        inflate == width > maxSubcolumnWidth0 * n
        maxSubcolumnWidth == IF inflate THEN width \div n ELSE maxSubcolumnWidth0
    IN  [column EXCEPT !.width = maxSubcolumnWidth * n + n - 1,
                       !.columns = [i \in DOMAIN subs |-> [subs[i] EXCEPT !.width = maxSubcolumnWidth]]]

\* UpdateWidth comparing the title with one subcolumn's width instead of with
\* allSubcolumnsWidth.
GroupWidthOneSubcolumn(column, subs) ==
    LET n == Len(subs)
        width == Len(column.title)
        maxSubcolumnWidth0 == MaxWidth(0, subs)
        inflate == width > maxSubcolumnWidth0
        maxSubcolumnWidth ==
            IF inflate
            THEN (width \div n) + (IF width % n # 0 THEN 1 ELSE 0)
            ELSE maxSubcolumnWidth0
    IN  [column EXCEPT !.width = maxSubcolumnWidth * n + n - 1,
                       !.columns = [i \in DOMAIN subs |-> [subs[i] EXCEPT !.width = maxSubcolumnWidth]]]

\* The second half of Column::UpdateWidth: the subcolumns' widths are known.
GroupWidth(column, subs) ==
    LET n == Len(subs)
        width == Len(column.title)
        maxSubcolumnWidth0 == MaxWidth(0, subs)
        allSubcolumnsWidth0 == maxSubcolumnWidth0 * n
        inflate == width > allSubcolumnsWidth0
        maxSubcolumnWidth ==
            IF inflate
            THEN (width \div n) + (IF width % n # 0 THEN 1 ELSE 0)
            ELSE maxSubcolumnWidth0
        allSubcolumnsWidth == IF inflate THEN maxSubcolumnWidth * n ELSE allSubcolumnsWidth0
    IN  [column EXCEPT !.width = allSubcolumnsWidth + n - 1,
                       !.columns = [i \in DOMAIN subs |-> [subs[i] EXCEPT !.width = maxSubcolumnWidth]]]

RECURSIVE ColumnUpdateWidth(_)
\* Column::UpdateWidth
ColumnUpdateWidth(column) ==
    IF Len(column.columns) = 0
    THEN [column EXCEPT !.width = MaxLen(Len(column.title), column.values)]
    ELSE GroupWidth(column,
                    [i \in DOMAIN column.columns |-> ColumnUpdateWidth(column.columns[i])])

\* ----------------------------------------------------------- class MereTable
\* Find that looks at the first column only.
FindFirstOnly(cols, columnName) ==
    LET it == IF cols # <<>> /\ cols[1].title = columnName THEN 1 ELSE Len(cols) + 1
    IN  [it |-> it, success |-> it # Len(cols) + 1]

\* MereTable::Find: the index of the first column titled columnName, and
\* whether there is one (the end iterator is Len + 1).
Find(cols, columnName) ==
    LET hits == { i \in DOMAIN cols : cols[i].title = columnName }
        it == IF hits = {} THEN Len(cols) + 1
              ELSE CHOOSE i \in hits : \A j \in hits : i <= j
    IN  [it |-> it, success |-> it # Len(cols) + 1]

\* MereTable::UpdateWidth
UpdateWidth(cols) == [i \in DOMAIN cols |-> ColumnUpdateWidth(cols[i])]

RECURSIVE CountNodes(_)
CountNodes(cols) ==
    IF cols = <<>> THEN 0
    ELSE 1 + CountNodes(Head(cols).columns) + CountNodes(Tail(cols))

RECURSIVE CountLeaves(_)
\* How many values one AddValues call reads: one per Column without subcolumns.
CountLeaves(cols) ==
    IF cols = <<>> THEN 0
    ELSE (IF Len(Head(cols).columns) = 0 THEN 1 ELSE CountLeaves(Head(cols).columns))
         + CountLeaves(Tail(cols))

\* ------------------------------------------------------- MereTable::ToString
RECURSIVE Cat(_)
Cat(ss) == IF ss = <<>> THEN <<>> ELSE Head(ss) \o Cat(Tail(ss))

\* os << std::setfill(fill) << std::setw(width) << what: right-justified,
\* never truncated.
Pad(fill, width, what) ==
    IF Len(what) >= width THEN what
    ELSE [i \in 1..(width - Len(what)) |-> fill] \o what

print(fill, border, width, what) == Pad(fill, width, what) \o <<border>>

\* what.values[i] (i counts from 1 here); outside the vector the read is
\* undefined and yields g.
ValueAt(what, i, g) == IF i <= Len(what.values) THEN what.values[i] ELSE g

\* The lambdas of ToString are records: the function and what it captured.
printTitle(border) == [fn |-> "printTitle", border |-> border]

printFill(fill, border) == [fn |-> "printFill", fill |-> fill, border |-> border]

forEachSubcolumn(f) == [fn |-> "forEachSubcolumn", f |-> f]

makePrintEl(ifNotSubcolumns, ifHasSubcolumns) ==
    [fn |-> "makePrintEl", ifNotSubcolumns |-> ifNotSubcolumns,
     ifHasSubcolumns |-> ifHasSubcolumns]

\* captures i by reference; g is what values[i] yields out of range
printColumnValue(i, g) == [fn |-> "printColumnValue", i |-> i, g |-> g]

RECURSIVE Call(_, _)
\* f(what) for one of these lambdas: the characters it writes to os.
Call(f, what) ==
    CASE f.fn = "printTitle" -> print(" ", f.border, what.width, what.title)
      [] f.fn = "printFill" -> print(f.fill, f.border, what.width, <<f.fill>>)
      [] f.fn = "printColumnValue" -> print(" ", "|", what.width, ValueAt(what, f.i, f.g))
      [] f.fn = "forEachSubcolumn" ->
            Cat([j \in DOMAIN what.columns |-> Call(f.f, what.columns[j])])
      [] f.fn = "makePrintEl" ->
            IF Len(what.columns) = 0
            THEN Call(f.ifNotSubcolumns, what)
            ELSE Call(f.ifHasSubcolumns, what)

printLine(leftborder, pr, cols) ==
    <<leftborder>> \o Cat([k \in DOMAIN cols |-> Call(pr, cols[k])])

\* The lines ToString writes for columns whose widths are up to date.
Lines(cols, rows, g) ==
    << \* up table border
       printLine("+", makePrintEl(printFill("-", "+"), printFill("-", "+")), cols),
       \* titles of the columns that have subcolumns
       printLine("|", makePrintEl(printFill(" ", "|"), printTitle("|")), cols),
       \* titles of the columns that have none
       printLine("|", makePrintEl(printTitle("|"), forEachSubcolumn(printFill("-", "+"))), cols),
       \* subcolumns titles
       printLine("|", makePrintEl(printFill(" ", "|"), forEachSubcolumn(printTitle("|"))), cols),
       \* border after table header
       printLine("+", makePrintEl(printFill("=", "+"), forEachSubcolumn(printFill("=", "+"))), cols) >>
    \o [i \in 1..rows |->
           printLine("|", makePrintEl(printColumnValue(i, g),
                                      forEachSubcolumn(printColumnValue(i, g))), cols)]
    \o << \* bottom border
          printLine("+", makePrintEl(printFill("-", "+"), forEachSubcolumn(printFill("-", "+"))), cols) >>

\* ToString reads values[i] with i >= values.size() for some printed column.
OutOfRange(cols, rows) ==
    \E k \in DOMAIN cols :
        IF Len(cols[k].columns) = 0
        THEN Len(cols[k].values) < rows
        ELSE \E j \in DOMAIN cols[k].columns : Len(cols[k].columns[j].values) < rows

\* printValue keeps references to the temporaries makePrintEl was called with;
\* the one built by forEachSubcolumn is destroyed before the loop over the rows
\* calls it, for a column with subcolumns.
DanglingCall(cols, rows) ==
    rows >= 1 /\ \E k \in DOMAIN cols : Len(cols[k].columns) # 0

\* ------------------------------------------------------------------ actions
Init ==
    /\ columns = <<>>
    /\ numRows = 0
    /\ status = "ok"
    /\ result = <<>>
    /\ lastOp = "MereTable"
    /\ lastArgs = <<>>
    /\ success = FALSE
    /\ cleared = 0
    /\ exact = TRUE

\* MereTable::AddColumns
AddColumns(names) ==
    /\ status = "ok"
    /\ CountNodes(columns) + numRows + Len(names) <= MaxSize
    /\ columns' = columns \o [i \in DOMAIN names |-> Column(names[i])]
    /\ lastOp' = "AddColumns" /\ lastArgs' = names /\ success' = FALSE
    /\ result' = <<>> /\ cleared' = 0
    /\ UNCHANGED <<numRows, status, exact>>

\* MereTable::AddSubcolumn
AddSubcolumn(columnName, subcolumnName) ==
    LET f == Find(columns, columnName) IN
    /\ status = "ok"
    /\ CountNodes(columns) + numRows + (IF f.success THEN 1 ELSE 2) <= MaxSize
    /\ columns' =
         IF ~f.success
         THEN Append(columns, ColumnAddColumn(Column(columnName), subcolumnName))
         ELSE [columns EXCEPT ![f.it] = ColumnAddColumn(@, subcolumnName)]
    /\ lastOp' = "AddSubcolumn" /\ lastArgs' = <<columnName, subcolumnName>>
    /\ success' = f.success
    /\ result' = <<>> /\ cleared' = 0
    /\ UNCHANGED <<numRows, status, exact>>

\* MereTable::AddColumn
AddColumn(columnName) ==
    LET f == Find(columns, columnName) IN
    /\ status = "ok"
    /\ f.success \/ CountNodes(columns) + numRows < MaxSize
    /\ columns' = IF ~f.success THEN Append(columns, Column(columnName)) ELSE columns
    /\ lastOp' = "AddColumn" /\ lastArgs' = <<columnName>>
    /\ success' = f.success
    /\ result' = <<>> /\ cleared' = 0
    /\ UNCHANGED <<numRows, status, exact>>

\* The initializer lists AddValues is called with (AddValues takes those with
\* one value per leaf column, one too few or one too many); the values alternate between two strings, so
\* that neighbouring leaves can be told apart.
AllRows ==
    { [i \in 1..k |-> IF i % 2 = 1 THEN v ELSE w] :
        v \in Values, w \in Values, k \in 0..(MaxSize + 1) }

\* MereTable::AddValues
AddValues(values) ==
    /\ status = "ok"
    /\ CountNodes(columns) + numRows < MaxSize
    /\ Len(values) >= CountLeaves(columns) - 1
    /\ Len(values) <= CountLeaves(columns) + 1
    /\ lastOp' = "AddValues" /\ lastArgs' = values /\ success' = FALSE
    /\ result' = <<>> /\ cleared' = 0
    /\ exact' = (exact /\ Len(values) = CountLeaves(columns))
    /\ \/ \* every *it is inside the list, or reads g past its end
          /\ \E g \in Overrun :
                columns' = ConsumeValuesEach(columns, 1, values, g).columns
          /\ numRows' = numRows + 1
          /\ status' = "ok"
       \/ \* a read past the end of the list ends the process
          /\ Len(values) < CountLeaves(columns)
          /\ status' = "crashed"
          /\ UNCHANGED <<columns, numRows>>

\* MereTable::Clear
Clear ==
    /\ status = "ok"
    /\ columns' = UpdateWidth([i \in DOMAIN columns |-> ColumnClear(columns[i])])
    /\ numRows' = 0
    /\ lastOp' = "Clear" /\ lastArgs' = <<>> /\ success' = FALSE
    /\ result' = <<>> /\ cleared' = numRows
    /\ UNCHANGED <<status, exact>>

\* MereTable::ToString
ToString ==
    /\ status = "ok"
    /\ columns' = UpdateWidth(columns)
    /\ lastOp' = "ToString" /\ lastArgs' = <<>> /\ success' = FALSE /\ cleared' = 0
    /\ \/ \* the calls go through; every values[i] is inside its vector, or
          \* reads g outside it
          /\ \E g \in Garbage : result' = Lines(columns', numRows, g)
          /\ status' = "ok"
       \/ \* a read outside a vector, or a call through the destroyed
          \* temporary, ends the process
          /\ OutOfRange(columns, numRows) \/ DanglingCall(columns, numRows)
          /\ status' = "crashed"
          /\ result' = <<>>
    /\ UNCHANGED <<numRows, exact>>

Next ==
    \/ \E names \in NameLists : AddColumns(names)
    \/ \E c \in Names, s \in Names : AddSubcolumn(c, s)
    \/ \E c \in Names : AddColumn(c)
    \/ \E values \in AllRows : AddValues(values)
    \/ Clear
    \/ ToString

Spec == Init /\ [][Next]_vars

\* ------------------------------------------------------- vocabulary of the claims
RECURSIVE Nodes(_)
\* Every Column of the tree, parents before their subcolumns.
Nodes(cols) ==
    IF cols = <<>> THEN <<>>
    ELSE <<Head(cols)>> \o Nodes(Head(cols).columns) \o Nodes(Tail(cols))

RECURSIVE Leaves(_)
\* The leaf columns, depth-first and left to right.
Leaves(cols) ==
    IF cols = <<>> THEN <<>>
    ELSE (IF Head(cols).columns = <<>> THEN <<Head(cols)>> ELSE Leaves(Head(cols).columns))
         \o Leaves(Tail(cols))

IsGroup(node) == node.columns # <<>>

RECURSIVE Skeleton(_)
\* Titles and child lists only.
Skeleton(cols) ==
    [i \in DOMAIN cols |-> [title |-> cols[i].title, columns |-> Skeleton(cols[i].columns)]]

RECURSIVE Rebuild(_)
\* The same structure as the constructors make it: no values, widths 0.
Rebuild(cols) ==
    [i \in DOMAIN cols |-> [Column(cols[i].title) EXCEPT !.columns = Rebuild(cols[i].columns)]]

RECURSIVE Longest(_)
Longest(strs) == IF strs = <<>> THEN 0 ELSE Max(Len(Head(strs)), Longest(Tail(strs)))

RECURSIVE Largest(_)
Largest(ns) == IF ns = <<>> THEN 0 ELSE Max(Head(ns), Largest(Tail(ns)))

RECURSIVE Sum(_)
Sum(ns) == IF ns = <<>> THEN 0 ELSE Head(ns) + Sum(Tail(ns))

\* Every leaf holds numRows values and no group holds any.
Regular ==
    \A k \in DOMAIN Nodes(columns) :
        LET node == Nodes(columns)[k]
        IN  Len(node.values) = (IF IsGroup(node) THEN 0 ELSE numRows)

RECURSIVE Cells(_, _)
\* The cells of a content line after its left border: the spans between "|".
Cells(line, cell) ==
    IF line = <<>> THEN <<>>
    ELSE IF Head(line) = "|" THEN <<cell>> \o Cells(Tail(line), <<>>)
    ELSE Cells(Tail(line), Append(cell, Head(line)))

\* The number of cells a content line holds left of top-level column i.
CellsBefore(cols, i) ==
    Sum([k \in 1..(i - 1) |-> IF IsGroup(cols[k]) THEN Len(cols[k].columns) ELSE 1])

\* P holds of every table that differs from cols in one title or one stored
\* value, which is replaced by a longer string.
AllWidenings(cols, P(_)) ==
    \A i \in DOMAIN cols, s \in Wider :
        /\ Len(s) > Len(cols[i].title) => P([cols EXCEPT ![i].title = s])
        /\ \A k \in DOMAIN cols[i].values :
               Len(s) > Len(cols[i].values[k]) => P([cols EXCEPT ![i].values[k] = s])
        /\ \A j \in DOMAIN cols[i].columns :
               /\ Len(s) > Len(cols[i].columns[j].title)
                      => P([cols EXCEPT ![i].columns[j].title = s])
               /\ \A k \in DOMAIN cols[i].columns[j].values :
                      Len(s) > Len(cols[i].columns[j].values[k])
                          => P([cols EXCEPT ![i].columns[j].values[k] = s])

\* No width of b is smaller than the width of the same Column in a.
WidthsGrow(a, b) ==
    LET na == Nodes(a)
        nb == Nodes(b)
    IN  \A k \in DOMAIN na : nb[k].width >= na[k].width

\* The lengths of the lines of a text.
LineLengths(lines) == [k \in DOMAIN lines |-> Len(lines[k])]

\* --------------------------------------------------------------------- claims

\* C1: after any sequence of AddColumn, AddColumns, AddSubcolumn, Clear and
\* AddValues calls in which every AddValues call passed one value per leaf
\* column, every leaf column holds exactly numRows values.
C1_LeavesHoldNumRows ==
    (status = "ok" /\ exact) =>
        \A j \in DOMAIN Leaves(columns) : Len(Leaves(columns)[j].values) = numRows

\* C2: no Column holds both subcolumns and values.
C2_NoChildrenAndValues ==
    \A k \in DOMAIN Nodes(columns) :
        IsGroup(Nodes(columns)[k]) => Nodes(columns)[k].values = <<>>

\* C3: AddValues called with a number of values different from the number of
\* leaf columns ends with ArgumentCountMismatch and changes neither the columns
\* nor numRows.
C3_MismatchRejected ==
    [][ (lastOp' = "AddValues" /\ Len(lastArgs') # Len(Leaves(columns)))
          => /\ status' = "ArgumentCountMismatch"
             /\ columns' = columns
             /\ numRows' = numRows ]_vars

\* C4: AddValues called with exactly one value per leaf appends value j as the
\* last entry of leaf j (leaves taken depth-first, left to right), keeps every
\* entry stored before, changes nothing else of the tree and adds 1 to numRows.
C4_RowLandsInLeafOrder ==
    [][ (lastOp' = "AddValues" /\ Len(lastArgs') = Len(Leaves(columns)))
          => /\ status' = "ok"
             /\ numRows' = numRows + 1
             /\ Skeleton(columns') = Skeleton(columns)
             /\ \A j \in DOMAIN Leaves(columns) :
                    Leaves(columns')[j].values
                        = Append(Leaves(columns)[j].values, lastArgs'[j])
             /\ \A k \in DOMAIN Nodes(columns) :
                    IsGroup(Nodes(columns)[k])
                        => Nodes(columns')[k].values = Nodes(columns)[k].values ]_vars

\* C4's case: a second row of two different values was appended to two or
\* more leaves.
C4_Witness ==
    /\ lastOp = "AddValues" /\ status = "ok" /\ exact
    /\ Len(lastArgs) = Len(Leaves(columns))
    /\ Len(lastArgs) >= 2 /\ lastArgs[1] # lastArgs[2]
    /\ numRows = 2
    /\ \A j \in DOMAIN Leaves(columns) : Len(Leaves(columns)[j].values) = 2

\* C5: Clear sets numRows to 0, empties the values of every Column and keeps
\* titles and child lists; the text ToString returns right after Clear is the
\* text of the same structure built anew, before any row was added.
C5_ClearKeepsStructure ==
    [][ /\ lastOp' = "Clear"
            => /\ numRows' = 0
               /\ \A k \in DOMAIN Nodes(columns') : Nodes(columns')[k].values = <<>>
               /\ Skeleton(columns') = Skeleton(columns)
        /\ (lastOp = "Clear" /\ lastOp' = "ToString")
            => /\ status' = "ok"
               /\ \A g \in Garbage : result' = Lines(UpdateWidth(Rebuild(columns)), 0, g) ]_vars

\* C5's case: Clear discarded rows of a table with subcolumns.
C5_Witness ==
    /\ lastOp = "Clear" /\ cleared >= 1 /\ exact
    /\ \E i \in DOMAIN columns : IsGroup(columns[i])
    /\ numRows = 0

\* C6: AddColumn(name) when a top-level column titled name exists changes
\* neither the columns (their order, subcolumns, values) nor numRows.
C6_AddColumnExistingIsNoOp ==
    [][ (lastOp' = "AddColumn" /\ \E i \in DOMAIN columns : columns[i].title = lastArgs'[1])
          => /\ columns' = columns
             /\ numRows' = numRows
             /\ status' = status ]_vars

\* C6's case: AddColumn was called with the title of the second of two
\* top-level columns, on a table that holds a row.
C6_Witness ==
    /\ lastOp = "AddColumn" /\ success
    /\ Len(columns) >= 2
    /\ columns[2].title = lastArgs[1] /\ columns[1].title # lastArgs[1]
    /\ numRows >= 1

\* C7: after ToString has computed the widths, replacing one title or one
\* stored value by a longer string and computing the widths again makes no
\* Column narrower and no line of the text shorter (an out-of-range read
\* yielding the same string in both texts).
C7_WidthMonotone ==
    (lastOp = "ToString" /\ status = "ok") =>
        \A g \in Garbage :
            result = Lines(columns, numRows, g) =>
                LET before == LineLengths(result)
                    NotSmaller(w) ==
                        LET u == UpdateWidth(w)
                            after == LineLengths(Lines(u, numRows, g))
                        IN  /\ WidthsGrow(columns, u)
                            /\ \A k \in DOMAIN before : after[k] >= before[k]
                IN  AllWidenings(columns, NotSmaller)

\* C7's case: a table with a row was rendered, and a longer value in the
\* first subcolumn of a group makes the group and the second subcolumn wider.
C7_Witness ==
    /\ lastOp = "ToString" /\ status = "ok" /\ numRows >= 1 /\ Regular /\ exact
    /\ \E i \in DOMAIN columns, s \in Wider :
        /\ Len(columns[i].columns) >= 2
        /\ Len(s) > Len(columns[i].columns[1].values[1])
        /\ LET u == UpdateWidth([columns EXCEPT ![i].columns[1].values[1] = s])
           IN  /\ u[i].width > columns[i].width
               /\ u[i].columns[2].width > columns[i].columns[2].width

\* C8: after ToString all direct subcolumns of a group have the same width,
\* and each cell of the group on the subcolumn title line and on every data
\* line spans exactly that many characters.
C8_EqualWidthSiblings ==
    (lastOp = "ToString" /\ status = "ok") =>
        \A i \in DOMAIN columns :
            IsGroup(columns[i]) =>
                \A j \in DOMAIN columns[i].columns :
                    LET w == columns[i].columns[j].width
                        c == CellsBefore(columns, i) + j
                    IN  /\ w = columns[i].columns[1].width
                        /\ Len(Cells(Tail(result[4]), <<>>)[c]) = w
                        /\ \A r \in 1..numRows :
                               Len(Cells(Tail(result[5 + r]), <<>>)[c]) = w

C10_LinesOfEqualLength ==
    (lastOp = "ToString" /\ status = "ok" /\ exact /\ Regular) =>
        /\ Len(result) = 6 + numRows
        /\ \A k \in DOMAIN result :
               Len(result[k]) = 1 + Sum([i \in DOMAIN columns |-> columns[i].width + 1])

====
